---- MODULE Spec2Model ----
(***************************************************************************)
(* Model of the Nexus Robotics plugin core:                                *)
(*   - BaseClient: retry with backoff and circuit breaker                  *)
(*     (src/src/src/integrations/BaseClient.ts, lines 17-322)              *)
(*   - MissionController: the ReAct mission loop, its progress evaluator   *)
(*     and finalization (same file, lines 353-1042)                        *)
(* The specifications share one set of variables:                          *)
(*   Spec        concurrent callers of one BaseClient instance             *)
(*   SpecEval    evaluateProgress applied to enumerated inputs             *)
(*   SpecMission executeMission calls interleaved on one controller        *)
(*   SpecSingle  one executeMission call alone, every step eventually taken*)
(*   SpecAct     one loop iteration, executeAction and its handlers        *)
(*   SpecLoop    the loop counter of two interleaved executeMission calls  *)
(*   SpecServer  the mission routes of the HTTP server                     *)
(*   SpecClients the breakers of the client instances                      *)
(***************************************************************************)
EXTENDS Integers, Naturals, Sequences, FiniteSets, TLC

(***************************************************************************)
(* Bounds of the model                                                     *)
(***************************************************************************)
NumCallers == 2
MaxCalls == 4
MaxNow == 60000
TickMs == 10000
IterCap == 2
MaxRequests == 2
ExtraFailures == 1
MaxWaits == 1

(***************************************************************************)
(* Program constants                                                       *)
(***************************************************************************)
MAX_RETRY_ATTEMPTS == 3
RETRY_DELAY_MS == 1000
RETRY_BACKOFF_MULTIPLIER == 2
FailureThreshold == 5
ResetTimeoutMs == 30000

Callers == 1..NumCallers

\* null for the controller's mission and worldState fields
\* The missions submitted to the controller, named in the order in which
\* their executions are invoked.
Missions == {"A", "B"}
NoActiveMission == "none"
maxIterations == 50

NoMission == [none |-> TRUE]
NoWorldState == [none |-> TRUE]

\* HTTP outcome of one transport attempt; NoResponse is a timeout or a
\* network failure (the axios error carries no response).
NoResponse == 0
Statuses == {200, 404, 503, NoResponse}

VARIABLES
    circuitBreaker, \* BaseClient.circuitBreaker: failures, lastFailureTime, state
    now,            \* Date.now(), in ms
    pc,             \* per caller: "idle", "request" (awaiting requestFn), "sleep"
    attempt,        \* per caller: loop variable of executeWithRetry
    wake,           \* per caller: earliest time the pending sleep() resolves
    delays,         \* per caller: the delays slept by the current call
    lastResult,     \* per caller: how the last finished call ended
    health,         \* per caller: what healthCheck, wrapping the call, gave back
    admittedIn,     \* per caller: breaker state under which the call was admitted
    calls,          \* number of executeWithRetry invocations so far
    consecFails,    \* retryable failures since the last successful response
    tripped,        \* the failure counter has reached the threshold, and no
                    \* call has since started 30 s after the last failure
    ev,             \* the last step taken
    evalMission,    \* SpecEval: the constraints of this.mission
    evalWorld,      \* SpecEval: this.worldState
    evalResult,     \* SpecEval: what evaluateProgress returned
    ctlMission,     \* MissionController.mission: a mission or NoActiveMission
    ctlWorld,       \* MissionController.worldState
    ctlIteration,   \* MissionController.iteration
    mStatus,        \* per mission: mission.status
    mObjectives,    \* per mission: the completed flags of its objectives
    mCons,          \* per mission: weather limits and battery reserve
    xpc,            \* per execution: the await it is suspended at
    xAction,        \* per execution: action.type being executed
    xEval,          \* per execution: the evaluation of the iteration
    xResult,        \* per execution: the MissionResult built by finalizeMission
    xError,         \* per execution: what executeMission raised
    xAborted,       \* per execution: the abort branch of the loop was taken
    xIter,          \* per execution: its own loop iterations, counted up to IterCap
    xev,            \* the perception or reasoning failure the last step received
    actPc,          \* SpecAct: the await executeAction is suspended at
    actType,        \* SpecAct: action.type handed to executeAction
    actSeen,        \* SpecAct: this.worldState as the handler read it
    actEpisodes,    \* SpecAct: the storeEpisode calls issued, in order
    actResult,      \* SpecAct: what executeAction returned, or that it raised
    actOwn,         \* SpecAct: the snapshot the execution's last assessment took
    actEvalOn,      \* SpecAct: this.worldState as evaluateProgress read it
    srvLog,         \* SpecServer: the requests handled, each with its response
    srvStarted,     \* SpecServer: the executeMission calls the routes started
    breakers,       \* SpecClients: per client instance, its circuitBreaker field
    svcEv,          \* SpecClients: the client and the operation of the last step
    loopIter        \* SpecLoop: per execution, the loop iterations it has begun

clientVars == <<circuitBreaker, now, pc, attempt, wake, delays,
                lastResult, health, admittedIn, calls, consecFails,
                tripped, ev>>

evalVars == <<evalMission, evalWorld, evalResult>>

missionVars == <<ctlMission, ctlWorld, ctlIteration, mStatus, mObjectives,
                 mCons, xpc, xAction, xEval, xResult, xError, xAborted,
                 xIter, xev>>

actVars == <<actPc, actType, actSeen, actEpisodes, actResult, actOwn, actEvalOn>>

\* The variables of the specifications added to the first three.
serverVars == <<srvLog, srvStarted>>

clientsVars == <<breakers, svcEv>>

loopVars == <<loopIter>>

sideVars == <<actVars, serverVars, clientsVars, loopVars>>

vars == <<clientVars, evalVars, missionVars, sideVars>>

(***************************************************************************)
(* BaseClient helpers                                                      *)
(***************************************************************************)
RECURSIVE Pow(_, _)
Pow(b, e) == IF e = 0 THEN 1 ELSE b * Pow(b, e - 1)

\* Mutation: the exponent is the attempt number itself.
RetryDelay_FullExponent(a) == RETRY_DELAY_MS * Pow(RETRY_BACKOFF_MULTIPLIER, a)

\* delayMs * Math.pow(backoffMultiplier, attempt - 1)
RetryDelay(a) == RETRY_DELAY_MS * Pow(RETRY_BACKOFF_MULTIPLIER, a - 1)

\* axios.isAxiosError(error) && error.response?.status && status < 500
IsClientError(status) == status # NoResponse /\ status < 500

incrementCircuitBreakerFailure(cb, t) ==
    LET f == cb.failures + 1
    IN [failures |-> f,
        lastFailureTime |-> t,
        state |-> IF f >= FailureThreshold THEN "OPEN" ELSE cb.state]

\* Mutation: a success closes the breaker but keeps the count.
resetCircuitBreaker_KeepCount(cb) ==
    [cb EXCEPT !.state = "CLOSED"]

resetCircuitBreaker(cb) ==
    [cb EXCEPT !.failures = 0, !.state = "CLOSED"]

\* How the catch block of executeWithRetry treats the outcome of an attempt.
Classify(status) ==
    IF status = 200 THEN "success"
    ELSE IF IsClientError(status) THEN "client" ELSE "retryable"

\* Mutation: an OPEN breaker rejects however long ago the last failure was.
BreakerRejects_NoTimeout(cb, t) ==
    cb.state = "OPEN"

\* The breaker check at the top of executeWithRetry.
BreakerRejects(cb, t) ==
    cb.state = "OPEN" /\ t - cb.lastFailureTime < ResetTimeoutMs

\* Mutation: entering HALF_OPEN also clears the failure counter.
BreakerAfterCheck_ClearsCount(cb) ==
    IF cb.state = "OPEN" THEN [cb EXCEPT !.state = "HALF_OPEN", !.failures = 0] ELSE cb

\* The else branch of the breaker check: an OPEN breaker whose timeout has
\* elapsed becomes HALF_OPEN.
BreakerAfterCheck(cb) ==
    IF cb.state = "OPEN" THEN [cb EXCEPT !.state = "HALF_OPEN"] ELSE cb

\* Mutation: the fast-fail of an OPEN breaker escapes the health check.
healthCheck_OpenEscapes(result) ==
    IF result = "ok" THEN "true"
    ELSE IF result = "CIRCUIT_BREAKER_OPEN" THEN "raised" ELSE "false"

\* BaseClient.healthCheck: get('/health') inside try, the catch returns
\* false; result is how the executeWithRetry call ended.
healthCheck(result) ==
    IF result = "ok" THEN "true" ELSE "false"

(***************************************************************************)
(* Initial state: a freshly constructed client, nobody calling             *)
(***************************************************************************)
InitClientIdle ==
    /\ circuitBreaker = [failures |-> 0, lastFailureTime |-> 0, state |-> "CLOSED"]
    /\ now = 0
    /\ pc = [c \in Callers |-> "idle"]
    /\ attempt = [c \in Callers |-> 0]
    /\ wake = [c \in Callers |-> 0]
    /\ delays = [c \in Callers |-> <<>>]
    /\ lastResult = [c \in Callers |-> "none"]
    /\ health = [c \in Callers |-> "none"]
    /\ admittedIn = [c \in Callers |-> "none"]
    /\ calls = 0
    /\ consecFails = 0
    /\ tripped = FALSE
    /\ ev = [op |-> "init", c |-> 0, status |-> 0]

(***************************************************************************)
(* executeWithRetry, up to its first await: the breaker check, then the    *)
(* first requestFn() is issued.                                            *)
(***************************************************************************)
CallStart(c) ==
    /\ pc[c] = "idle"
    /\ calls < MaxCalls
    /\ calls' = calls + 1
    /\ delays' = [delays EXCEPT ![c] = <<>>]
    /\ IF BreakerRejects(circuitBreaker, now)
       THEN /\ lastResult' = [lastResult EXCEPT ![c] = "CIRCUIT_BREAKER_OPEN"]
            /\ health' = [health EXCEPT ![c] = healthCheck("CIRCUIT_BREAKER_OPEN")]
            /\ ev' = [op |-> "reject", c |-> c, status |-> 0]
            /\ UNCHANGED <<circuitBreaker, pc, attempt, admittedIn>>
       ELSE /\ circuitBreaker' = BreakerAfterCheck(circuitBreaker)
            /\ admittedIn' = [admittedIn EXCEPT ![c] = circuitBreaker'.state]
            /\ attempt' = [attempt EXCEPT ![c] = 1]
            /\ pc' = [pc EXCEPT ![c] = "request"]
            /\ lastResult' = [lastResult EXCEPT ![c] = "pending"]
            /\ health' = [health EXCEPT ![c] = "pending"]
            /\ ev' = [op |-> "send", c |-> c, status |-> 0]
    /\ tripped' = (tripped /\ now - circuitBreaker.lastFailureTime < ResetTimeoutMs)
    /\ UNCHANGED <<now, wake, consecFails, evalVars, missionVars, sideVars>>

(***************************************************************************)
(* The awaited requestFn() settles with an HTTP status.                    *)
(***************************************************************************)
RespondSuccess(c) ==
    /\ circuitBreaker' = resetCircuitBreaker(circuitBreaker)
    /\ pc' = [pc EXCEPT ![c] = "idle"]
    /\ lastResult' = [lastResult EXCEPT ![c] = "ok"]
    /\ health' = [health EXCEPT ![c] = healthCheck("ok")]
    /\ consecFails' = 0
    /\ UNCHANGED <<wake, delays>>

\* Mutation: the failure is counted before the status is looked at.
RespondClientError_Counted(c) ==
    /\ circuitBreaker' = incrementCircuitBreakerFailure(circuitBreaker, now)
    /\ pc' = [pc EXCEPT ![c] = "idle"]
    /\ lastResult' = [lastResult EXCEPT ![c] = "CLIENT_ERROR"]
    /\ health' = [health EXCEPT ![c] = healthCheck("CLIENT_ERROR")]
    /\ UNCHANGED <<wake, delays, consecFails>>

RespondClientError(c) ==
    /\ pc' = [pc EXCEPT ![c] = "idle"]
    /\ lastResult' = [lastResult EXCEPT ![c] = "CLIENT_ERROR"]
    /\ health' = [health EXCEPT ![c] = healthCheck("CLIENT_ERROR")]
    /\ UNCHANGED <<circuitBreaker, wake, delays, consecFails>>

RespondRetryable(c) ==
    /\ circuitBreaker' = incrementCircuitBreakerFailure(circuitBreaker, now)
    /\ consecFails' = consecFails + 1
    /\ IF attempt[c] < MAX_RETRY_ATTEMPTS
       THEN /\ delays' = [delays EXCEPT ![c] = Append(@, RetryDelay(attempt[c]))]
            /\ wake' = [wake EXCEPT ![c] = now + RetryDelay(attempt[c])]
            /\ pc' = [pc EXCEPT ![c] = "sleep"]
            /\ UNCHANGED <<lastResult, health>>
       ELSE /\ pc' = [pc EXCEPT ![c] = "idle"]
            /\ lastResult' = [lastResult EXCEPT ![c] = "SERVICE_ERROR"]
            /\ health' = [health EXCEPT ![c] = healthCheck("SERVICE_ERROR")]
            /\ UNCHANGED <<wake, delays>>

Respond(c, status) ==
    /\ pc[c] = "request"
    /\ ev' = [op |-> "respond", c |-> c, status |-> status]
    /\ CASE Classify(status) = "success" -> RespondSuccess(c)
         [] Classify(status) = "client" -> RespondClientError(c)
         [] OTHER -> RespondRetryable(c)
    /\ tripped' = (tripped \/ circuitBreaker'.failures >= FailureThreshold)
    /\ UNCHANGED <<now, attempt, admittedIn, calls, evalVars, missionVars, sideVars>>

(***************************************************************************)
(* sleep(delay) resolves: the loop goes round and issues the next          *)
(* requestFn() (the breaker is not consulted again inside the loop).       *)
(***************************************************************************)
RetryWake(c) ==
    /\ pc[c] = "sleep"
    /\ now >= wake[c]
    /\ attempt' = [attempt EXCEPT ![c] = @ + 1]
    /\ pc' = [pc EXCEPT ![c] = "request"]
    /\ ev' = [op |-> "send", c |-> c, status |-> 0]
    /\ wake' = [wake EXCEPT ![c] = 0]
    /\ UNCHANGED <<circuitBreaker, now, delays, lastResult, health,
                   admittedIn, calls, consecFails, tripped, evalVars,
                   missionVars, sideVars>>

\* Time passes.  A timer that is due fires before the clock moves on.
Tick ==
    /\ now + TickMs <= MaxNow
    /\ \A c \in Callers : pc[c] = "sleep" => now < wake[c]
    /\ now' = now + TickMs
    /\ ev' = [op |-> "tick", c |-> 0, status |-> 0]
    /\ UNCHANGED <<circuitBreaker, pc, attempt, wake, delays, lastResult,
                   health, admittedIn, calls, consecFails, tripped, evalVars,
                   missionVars, sideVars>>

Next ==
    \/ \E c \in Callers : CallStart(c)
    \/ \E c \in Callers : \E s \in Statuses : Respond(c, s)
    \/ \E c \in Callers : RetryWake(c)
    \/ Tick

(***************************************************************************)
(* MissionController: classification helpers                               *)
(***************************************************************************)
\* An optional number that is undefined.
Absent == -1

\* JavaScript truthiness of an optional number: undefined and 0 are falsy.
Truthy(x) == x # Absent /\ x # 0

\* String.prototype.toLowerCase on the category strings of the model.
ToLowerCase(cat) ==
    CASE cat \in {"person", "Person", "PERSON"} -> "person"
      [] cat \in {"vehicle", "Vehicle"} -> "vehicle"
      [] cat \in {"bicycle", "BICYCLE"} -> "bicycle"
      [] cat \in {"package"} -> "package"
      [] cat \in {"drone", "Drone"} -> "drone"
      [] cat \in {"constructor", "Constructor"} -> "constructor"
      [] OTHER -> cat

CategoryMapKeys ==
    {"person", "vehicle", "bicycle", "animal", "building", "tree", "sign",
     "traffic_light", "package", "equipment", "infrastructure"}

\* categoryMap is an object literal, so a lookup also finds the members it
\* inherits from Object.prototype; of those only these two have a name
\* without capitals, which a lower-cased category can equal.
ObjectPrototypeKeys == {"constructor", "__proto__"}

\* categoryMap[category.toLowerCase()] || ObjectClassification.UNKNOWN
\* An inherited member is an object or a function, hence truthy, and is
\* returned as the classification.
mapToObjectClassification(cat) ==
    IF ToLowerCase(cat) \in CategoryMapKeys THEN ToLowerCase(cat)
    ELSE IF ToLowerCase(cat) \in ObjectPrototypeKeys
    THEN "Object.prototype." \o ToLowerCase(cat)
    ELSE "unknown"

calculateSafetyPriority(cat) ==
    IF ToLowerCase(cat) = "person" THEN "HIGH"
    ELSE IF ToLowerCase(cat) = "vehicle" THEN "HIGH"
    ELSE IF ToLowerCase(cat) = "bicycle" THEN "MEDIUM"
    ELSE "LOW"

\* A Detection of the vision collaborator: its category and its
\* confidence, in hundredths.
Detection(category, confidence) ==
    [category |-> category, confidence |-> confidence]

\* The detections of the listed categories, all with the same confidence.
WithConfidence(categories, confidence) ==
    [i \in 1..Len(categories) |-> Detection(categories[i], confidence)]

\* The threshold 0.7 that assessSituation hands to detectObjects, in
\* hundredths.
ConfidenceThreshold == 70

\* A confidence at which every detection passes the threshold.
Confident == 90

\* The tracked objects assessSituation builds from the detections that
\* detectObjects returned.
TrackedObjects(detections) ==
    [i \in 1..Len(detections) |->
        [category |-> detections[i].category,
         classification |-> mapToObjectClassification(detections[i].category),
         confidence |-> detections[i].confidence,
         priority |-> calculateSafetyPriority(detections[i].category)]]

(***************************************************************************)
(* MissionController.evaluateProgress                                      *)
(* m is the mission's constraints or NoMission, ws the world state or      *)
(* NoWorldState; the result carries the rule that decided.                 *)
(***************************************************************************)
Decision(replan, abort, reason) ==
    [needsReplanning |-> replan, shouldAbort |-> abort, reason |-> reason]

PendingDecision == Decision(FALSE, FALSE, "pending")

IsHighPriorityPerson(obj) ==
    obj.classification = "person" /\ obj.priority = "HIGH"

\* trackedObjects.filter(PERSON and HIGH).length
CountHighPriorityPersons(objs) ==
    Cardinality({i \in 1..Len(objs) : IsHighPriorityPerson(objs[i])})

evaluateProgress(m, ws) ==
    IF m = NoMission \/ ws = NoWorldState
    THEN Decision(FALSE, TRUE, "no_mission")
    ELSE IF CountHighPriorityPersons(ws.trackedObjects) > 3
    THEN Decision(TRUE, FALSE, "crowd")
    ELSE IF Truthy(ws.windSpeed) /\ Truthy(m.maxWindSpeed) /\ ws.windSpeed > m.maxWindSpeed
    THEN Decision(FALSE, TRUE, "wind")
    ELSE IF Truthy(ws.visibility) /\ Truthy(m.minVisibility) /\ ws.visibility < m.minVisibility
    THEN Decision(FALSE, TRUE, "visibility")
    ELSE IF ws.battery < (IF Truthy(m.batteryReserve) THEN m.batteryReserve ELSE 20)
    THEN Decision(FALSE, TRUE, "battery")
    ELSE IF ws.errors > 0
    THEN Decision(TRUE, FALSE, "errors")
    ELSE Decision(FALSE, FALSE, "none")

(***************************************************************************)
(* SpecEval: evaluateProgress applied to enumerated missions and world     *)
(* states.                                                                 *)
(***************************************************************************)
DetectionLists ==
    {<<>>,
     <<"Vehicle", "person", "PERSON", "Person">>,
     <<"person", "person", "Person", "PERSON">>,
     <<"person", "person", "drone", "person", "bicycle", "person", "PERSON">>}

EvalWorldStates ==
    [trackedObjects : {TrackedObjects(WithConfidence(d, Confident)) : d \in DetectionLists},
     windSpeed : {Absent, 0, 5, 20},
     visibility : {Absent, 0, 50, 10000},
     battery : {0, 10, 100},
     errors : {0, 1}]

EvalConstraints ==
    [maxWindSpeed : {Absent, 0, 10},
     minVisibility : {Absent, 0, 100},
     batteryReserve : {Absent, 0, 20, 50}]

Evaluate ==
    /\ evalMission # NoMission
    /\ evalResult.reason = "pending"
    /\ evalResult' = evaluateProgress(evalMission, evalWorld)
    /\ UNCHANGED <<evalMission, evalWorld, clientVars, missionVars, sideVars>>

NextEval == Evaluate


(***************************************************************************)
(* SpecMission: executeMission calls interleaved on one MissionController. *)
(* Execution e runs mission e.  A step runs from the completion of one     *)
(* awaited collaborator call or timer to the start of the next one.        *)
(***************************************************************************)
StoreOutcomes == {"ok", "fail"}

\* What the reasoning collaborator may put in decision.decision.
ActionOptions ==
    {"continue_path", "avoid_obstacle", "inspect_area", "collect_data",
     "deliver_package", "scan_for_people", "return_to_base", "pause_for_safety"}
\* The replies the model draws: one action of each kind of handler, the
\* abort action and a string outside the options.
DecisionReplies ==
    {"continue_path", "inspect_area", "deliver_package", "pause_for_safety",
     "abort", "fly_away"}

MissionDetections ==
    {WithConfidence(<<"person", "person", "Person", "PERSON">>, ConfidenceThreshold - 1),
     WithConfidence(<<"person", "person", "Person", "PERSON">>, ConfidenceThreshold)}

\* What processFrame gives detectObjects: the detections of the response
\* (four persons, all just below or all at the threshold), or a failure
\* (retries exhausted, client error, breaker open).
FrameReplies ==
    {[ok |-> TRUE, detections |-> d] : d \in MissionDetections}
        \cup {[ok |-> FALSE, detections |-> <<>>]}

\* response.detections.filter((d) => d.confidence >= threshold), by
\* position.
RECURSIVE AtOrAbove(_, _, _)
AtOrAbove(detections, threshold, i) ==
    IF i > Len(detections) THEN <<>>
    ELSE IF detections[i].confidence >= threshold
    THEN <<detections[i]>> \o AtOrAbove(detections, threshold, i + 1)
    ELSE AtOrAbove(detections, threshold, i + 1)

\* Mutation: detectObjects lets the failure through.
detectObjects_Rethrow(reply, threshold) ==
    [threw |-> ~reply.ok,
     detections |-> AtOrAbove(reply.detections, threshold, 1)]

\* VideoAgentClient.detectObjects: the detections of the response at or
\* above the threshold; the catch block returns [].
detectObjects(reply, threshold) ==
    IF reply.ok
    THEN [threw |-> FALSE,
          detections |-> AtOrAbove(reply.detections, threshold, 1)]
    ELSE [threw |-> FALSE, detections |-> <<>>]


\* The snapshot assessSituation builds: the environment and health values
\* are the literals of the source.
AssessedWorldState(detections) ==
    [trackedObjects |-> TrackedObjects(detections),
     windSpeed |-> 5,
     visibility |-> 10000,
     battery |-> 100,
     errors |-> 0]

IsPerson(obj) == obj.classification = "person"

\* trackedObjects.filter(PERSON).length
CountPersons(objs) == Cardinality({i \in 1..Len(objs) : IsPerson(objs[i])})

\* The missions a submitter may hand over: status, objectives' completed
\* flags and constraints.
CalmLimits == [maxWindSpeed |-> 10, minVisibility |-> 100, batteryReserve |-> 20]
WindyLimits == [maxWindSpeed |-> 3, minVisibility |-> 100, batteryReserve |-> 20]

MissionProfiles ==
    {[status |-> "READY", objectives |-> <<FALSE, FALSE, FALSE>>, cons |-> CalmLimits],
     [status |-> "IN_PROGRESS", objectives |-> <<TRUE, FALSE>>, cons |-> WindyLimits],
     [status |-> "COMPLETED", objectives |-> <<TRUE, TRUE>>, cons |-> WindyLimits],
     [status |-> "READY", objectives |-> <<TRUE>>, cons |-> CalmLimits]}

NoResult == [none |-> TRUE]
NoError == [none |-> TRUE]

\* The mission status machine of the shared constants: for each status, the
\* statuses it may change to.
MISSION_STATUS_TRANSITIONS ==
    [PLANNING |-> {"READY", "ABORTED"},
     READY |-> {"IN_PROGRESS", "ABORTED"},
     IN_PROGRESS |-> {"PAUSED", "COMPLETED", "FAILED", "ABORTED"},
     PAUSED |-> {"IN_PROGRESS", "ABORTED"},
     COMPLETED |-> {},
     FAILED |-> {},
     ABORTED |-> {}]

\* this.mission.objectives.filter((obj) => obj.completed).length
CompletedCount(objs) == Cardinality({i \in 1..Len(objs) : objs[i]})

\* MissionController.isMissionComplete, on the controller's mission field
isMissionComplete(status) ==
    IF ctlMission = NoActiveMission THEN FALSE
    ELSE \/ \A i \in 1..Len(mObjectives[ctlMission]) : mObjectives[ctlMission][i]
         \/ status[ctlMission] = "ABORTED"
         \/ status[ctlMission] = "FAILED"

\* A failure of the perception or the reasoning collaborator that the last
\* step of execution e received: the call, what became of the failure
\* ("absorbed" by the callee's own handler or "raised" to executeMission)
\* and the value of this.iteration when it arrived.
Event(e, call, outcome) ==
    [e |-> e, call |-> call, outcome |-> outcome, iteration |-> ctlIteration]
NoEvent == [e |-> "none", call |-> "none", outcome |-> "none", iteration |-> 0]

\* The catch block of executeMission; the iteration number the MissionError
\* carries is the one recorded in xev.
Catch(e, event) ==
    /\ mStatus' = [mStatus EXCEPT ![e] = "FAILED"]
    /\ xError' = [xError EXCEPT ![e] =
                    [kind |-> "MissionError", missionId |-> e]]
    /\ xev' = event
    /\ xpc' = [xpc EXCEPT ![e] = "raised"]

\* finalizeMission up to its await of storeMissionResult; status is the
\* mission status as it stands when finalizeMission is entered.
Finalize(e, status) ==
    IF ctlMission = NoActiveMission
    THEN /\ Catch(e, NoEvent)
         /\ UNCHANGED xResult
    ELSE /\ xResult' = [xResult EXCEPT ![e] =
                          [missionId |-> ctlMission,
                           status |-> status[ctlMission],
                           objectivesCompleted |-> CompletedCount(mObjectives[ctlMission]),
                           objectivesTotal |-> Len(mObjectives[ctlMission])]]
         /\ xpc' = [xpc EXCEPT ![e] = "storeResult"]
         /\ mStatus' = status
         /\ UNCHANGED xError
         /\ xev' = NoEvent

Min(a, b) == IF a < b THEN a ELSE b

\* Mutation: the while condition does not test the iteration counter.
LoopTop_NoIterationBound(e) ==
    IF ~isMissionComplete(mStatus)
    THEN /\ ctlIteration' = ctlIteration + 1
         /\ xIter' = [xIter EXCEPT ![e] = Min(@ + 1, IterCap)]
         /\ xpc' = [xpc EXCEPT ![e] = "assess"]
         /\ UNCHANGED <<mStatus, xResult, xError>>
         /\ xev' = NoEvent
    ELSE /\ Finalize(e, mStatus)
         /\ UNCHANGED <<ctlIteration, xIter>>

\* The while condition, then either the head of the next iteration (up to
\* the detectObjects call of assessSituation) or finalizeMission.
LoopTop(e) ==
    IF ctlIteration < maxIterations /\ ~isMissionComplete(mStatus)
    THEN /\ ctlIteration' = ctlIteration + 1
         /\ xIter' = [xIter EXCEPT ![e] = Min(@ + 1, IterCap)]
         /\ xpc' = [xpc EXCEPT ![e] = "assess"]
         /\ UNCHANGED <<mStatus, xResult, xError>>
         /\ xev' = NoEvent
    ELSE /\ Finalize(e, mStatus)
         /\ UNCHANGED <<ctlIteration, xIter>>

StartMission(e) ==
    /\ xpc[e] = "idle"
    /\ e = "B" => xpc["A"] # "idle"
    /\ ctlMission' = e
    /\ ctlIteration' = 0
    /\ xpc' = [xpc EXCEPT ![e] = "startEpisode"]
    /\ UNCHANGED <<ctlWorld, mStatus, mObjectives, mCons, xAction,
                  xEval, xResult, xError, xAborted, xIter>>
    /\ xev' = NoEvent
    /\ UNCHANGED <<clientVars, evalVars, sideVars>>

\* storeEpisode('mission_start') settles; the call sits before the try.
StartEpisodeSettled(e, r) ==
    /\ xpc[e] = "startEpisode"
    /\ IF r = "ok"
       THEN LoopTop(e)
       ELSE /\ xpc' = [xpc EXCEPT ![e] = "raised"]
            /\ xError' = [xError EXCEPT ![e] =
                            [kind |-> "RoboticsError", missionId |-> NoActiveMission]]
            /\ xev' = NoEvent
            /\ UNCHANGED <<ctlIteration, mStatus, xResult, xIter>>
    /\ UNCHANGED <<ctlMission, ctlWorld, mObjectives, mCons, xAction, xEval,
                   xAborted>>

StartEpisodeDone(e, r) ==
    /\ StartEpisodeSettled(e, r)
    /\ UNCHANGED <<clientVars, evalVars, sideVars>>

\* detectObjects of the REASON step settles; the snapshot is stored and
\* planNextAction calls makeStrategicDecision.
AssessTurn(e, reply) ==
    /\ xpc[e] = "assess"
    /\ IF detectObjects(reply, ConfidenceThreshold).threw
       THEN /\ Catch(e, Event(e, "detectObjects", "raised"))
            /\ UNCHANGED ctlWorld
       ELSE /\ ctlWorld' = AssessedWorldState(detectObjects(reply, ConfidenceThreshold).detections)
            /\ IF ctlMission = NoActiveMission
               THEN Catch(e, NoEvent)
               ELSE /\ xpc' = [xpc EXCEPT ![e] = "plan"]
                    /\ UNCHANGED <<mStatus, xError>>
                    /\ xev' = IF reply.ok THEN NoEvent
                              ELSE Event(e, "detectObjects", "absorbed")
    /\ UNCHANGED <<ctlMission, ctlIteration, mObjectives, mCons, xAction,
                   xEval, xResult, xAborted, xIter>>

AssessDone(e, reply) ==
    /\ AssessTurn(e, reply)
    /\ UNCHANGED <<clientVars, evalVars, sideVars>>

\* Mutation: a failed decision is replaced by the default action.
DecisionFailed_DefaultAction(e) ==
    /\ xAction' = [xAction EXCEPT ![e] = "continue_path"]
    /\ xev' = Event(e, "makeStrategicDecision", "absorbed")
    /\ xpc' = [xpc EXCEPT ![e] = "actEpisode"]
    /\ UNCHANGED <<mStatus, xError>>

\* makeStrategicDecision rethrows; planNextAction has no handler of its own.
DecisionFailed(e) ==
    /\ Catch(e, Event(e, "makeStrategicDecision", "raised"))
    /\ UNCHANGED xAction

\* makeStrategicDecision settles; executeAction stores the action episode.
PlanTurn(e, reply) ==
    /\ xpc[e] = "plan"
    /\ IF reply = "fail"
       THEN DecisionFailed(e)
       ELSE /\ xAction' = [xAction EXCEPT ![e] = reply]
            /\ xpc' = [xpc EXCEPT ![e] = "actEpisode"]
            /\ UNCHANGED <<mStatus, xError>>
            /\ xev' = NoEvent
    /\ UNCHANGED <<ctlMission, ctlWorld, ctlIteration, mObjectives, mCons,
                   xEval, xResult, xAborted, xIter>>

PlanDone(e, reply) ==
    /\ PlanTurn(e, reply)
    /\ UNCHANGED <<clientVars, evalVars, sideVars>>

\* Whether the handler of the action issues a knowledge-store write.
HandlerWrites(action) ==
    CASE action \in {"inspect_area", "collect_data"} ->
            ctlMission # NoActiveMission /\ ctlWorld # NoWorldState
      [] action \in {"deliver_package", "scan_for_people"} ->
            /\ ctlMission # NoActiveMission
            /\ ctlWorld # NoWorldState
            /\ CountPersons(ctlWorld.trackedObjects) > 0
      [] action = "pause_for_safety" -> ctlWorld # NoWorldState
      [] OTHER -> FALSE

\* The action episode settles; the switch of executeAction runs up to the
\* handler's write, or through to the detectObjects call of observeOutcome.
ActEpisodeTurn(e, r) ==
    /\ xpc[e] = "actEpisode"
    /\ IF r = "fail"
       THEN /\ Catch(e, NoEvent)
            /\ UNCHANGED xAction
       ELSE /\ IF HandlerWrites(xAction[e])
               THEN /\ xpc' = [xpc EXCEPT ![e] = "handlerEpisode"]
                    /\ UNCHANGED xAction
               ELSE /\ xpc' = [xpc EXCEPT ![e] = "observe"]
                    /\ xAction' = [xAction EXCEPT ![e] = "none"]
            /\ UNCHANGED <<mStatus, xError>>
            /\ xev' = NoEvent
    /\ UNCHANGED <<ctlMission, ctlWorld, ctlIteration, mObjectives, mCons,
                   xEval, xResult, xAborted, xIter>>

ActEpisodeDone(e, r) ==
    /\ ActEpisodeTurn(e, r)
    /\ UNCHANGED <<clientVars, evalVars, sideVars>>

HandlerEpisodeTurn(e, r) ==
    /\ xpc[e] = "handlerEpisode"
    /\ IF r = "fail"
       THEN /\ Catch(e, NoEvent)
            /\ UNCHANGED xAction
       ELSE /\ IF xAction[e] = "pause_for_safety"
               THEN xpc' = [xpc EXCEPT ![e] = "pauseSleep"]
               ELSE xpc' = [xpc EXCEPT ![e] = "observe"]
            /\ xAction' = [xAction EXCEPT ![e] = "none"]
            /\ UNCHANGED <<mStatus, xError>>
            /\ xev' = NoEvent
    /\ UNCHANGED <<ctlMission, ctlWorld, ctlIteration, mObjectives, mCons,
                   xEval, xResult, xAborted, xIter>>

HandlerEpisodeDone(e, r) ==
    /\ HandlerEpisodeTurn(e, r)
    /\ UNCHANGED <<clientVars, evalVars, sideVars>>

\* sleep(5000) of pauseForSafety resolves.
PauseSleepTurn(e) ==
    /\ xpc[e] = "pauseSleep"
    /\ xpc' = [xpc EXCEPT ![e] = "observe"]
    /\ UNCHANGED <<ctlMission, ctlWorld, ctlIteration, mStatus, mObjectives, mCons,
                  xAction, xEval, xResult, xError, xAborted, xIter>>
    /\ xev' = NoEvent

PauseSleepDone(e) ==
    /\ PauseSleepTurn(e)
    /\ UNCHANGED <<clientVars, evalVars, sideVars>>

\* detectObjects of observeOutcome settles; updateWorldModel stores the new
\* snapshot and writes the observation episode.
ObserveTurn(e, reply) ==
    /\ xpc[e] = "observe"
    /\ IF detectObjects(reply, ConfidenceThreshold).threw
       THEN /\ Catch(e, Event(e, "detectObjects", "raised"))
            /\ UNCHANGED ctlWorld
       ELSE /\ ctlWorld' = AssessedWorldState(detectObjects(reply, ConfidenceThreshold).detections)
            /\ xpc' = [xpc EXCEPT ![e] = "obsEpisode"]
            /\ UNCHANGED <<mStatus, xError>>
            /\ xev' = IF reply.ok THEN NoEvent
                      ELSE Event(e, "detectObjects", "absorbed")
    /\ UNCHANGED <<ctlMission, ctlIteration, mObjectives, mCons,
                   xAction, xEval, xResult, xAborted, xIter>>

ObserveDone(e, reply) ==
    /\ ObserveTurn(e, reply)
    /\ UNCHANGED <<clientVars, evalVars, sideVars>>

\* The abort branch of the loop followed by finalizeMission.
AbortAndFinalize(e) ==
    /\ xAborted' = [xAborted EXCEPT ![e] = TRUE]
    /\ Finalize(e, [mStatus EXCEPT ![e] = "ABORTED"])

\* The observation episode settles; evaluateProgress runs on the
\* controller's mission and world state, then the REFLECT branches.
ObsEpisodeTurn(e, r) ==
    /\ xpc[e] = "obsEpisode"
    /\ IF r = "fail"
       THEN /\ Catch(e, NoEvent)
            /\ UNCHANGED <<xEval, xResult, xAborted>>
       ELSE LET evaluation ==
                    evaluateProgress(
                        IF ctlMission = NoActiveMission THEN NoMission ELSE mCons[ctlMission],
                        ctlWorld)
            IN IF evaluation.needsReplanning
               THEN /\ xEval' = [xEval EXCEPT ![e] = evaluation]
                    /\ xpc' = [xpc EXCEPT ![e] = "replan"]
                    /\ UNCHANGED <<mStatus, xResult, xError, xAborted>>
                    /\ xev' = NoEvent
               ELSE IF evaluation.shouldAbort
               THEN /\ AbortAndFinalize(e)
                    /\ UNCHANGED xEval
               ELSE /\ xpc' = [xpc EXCEPT ![e] = "pace"]
                    /\ UNCHANGED <<mStatus, xResult, xError, xAborted, xEval>>
                    /\ xev' = NoEvent
    /\ UNCHANGED <<ctlMission, ctlWorld, ctlIteration, mObjectives, mCons,
                   xAction, xIter>>

ObsEpisodeDone(e, r) ==
    /\ ObsEpisodeTurn(e, r)
    /\ UNCHANGED <<clientVars, evalVars, sideVars>>

\* The replanning episode settles.
ReplanDone(e, r) ==
    /\ xpc[e] = "replan"
    /\ xEval' = [xEval EXCEPT ![e] = PendingDecision]
    /\ IF r = "fail"
       THEN /\ Catch(e, NoEvent)
            /\ UNCHANGED <<xResult, xAborted>>
       ELSE IF xEval[e].shouldAbort
       THEN AbortAndFinalize(e)
       ELSE /\ xpc' = [xpc EXCEPT ![e] = "pace"]
            /\ UNCHANGED <<mStatus, xResult, xError, xAborted>>
            /\ xev' = NoEvent
    /\ UNCHANGED <<ctlMission, ctlWorld, ctlIteration, mObjectives, mCons,
                   xAction, xIter>>
    /\ UNCHANGED <<clientVars, evalVars, sideVars>>

\* sleep(100) resolves and the while condition is tested again.
PaceElapsed(e) ==
    /\ xpc[e] = "pace"
    /\ LoopTop(e)
    /\ UNCHANGED <<ctlMission, ctlWorld, mObjectives, mCons, xAction, xEval,
                   xAborted>>

PaceDone(e) ==
    /\ PaceElapsed(e)
    /\ UNCHANGED <<clientVars, evalVars, sideVars>>

\* storeMissionResult settles.
StoreResultDone(e, r) ==
    /\ xpc[e] = "storeResult"
    /\ IF r = "fail"
       THEN Catch(e, NoEvent)
       ELSE /\ IF xResult[e].status = "COMPLETED"
               THEN xpc' = [xpc EXCEPT ![e] = "storePattern"]
               ELSE xpc' = [xpc EXCEPT ![e] = "returned"]
            /\ UNCHANGED <<mStatus, xError>>
            /\ xev' = NoEvent
    /\ UNCHANGED <<ctlMission, ctlWorld, ctlIteration, mObjectives, mCons,
                   xAction, xEval, xResult, xAborted, xIter>>
    /\ UNCHANGED <<clientVars, evalVars, sideVars>>

\* storePattern settles.
StorePatternDone(e, r) ==
    /\ xpc[e] = "storePattern"
    /\ IF r = "fail"
       THEN Catch(e, NoEvent)
       ELSE /\ xpc' = [xpc EXCEPT ![e] = "returned"]
            /\ UNCHANGED <<mStatus, xError>>
            /\ xev' = NoEvent
    /\ UNCHANGED <<ctlMission, ctlWorld, ctlIteration, mObjectives, mCons,
                   xAction, xEval, xResult, xAborted, xIter>>
    /\ UNCHANGED <<clientVars, evalVars, sideVars>>

NextMission ==
    \/ \E e \in Missions : StartMission(e)
    \/ \E e \in Missions : \E r \in StoreOutcomes : StartEpisodeDone(e, r)
    \/ \E e \in Missions : \E d \in FrameReplies : AssessDone(e, d)
    \/ \E e \in Missions : \E a \in DecisionReplies \cup {"fail"} : PlanDone(e, a)
    \/ \E e \in Missions : \E r \in StoreOutcomes : ActEpisodeDone(e, r)
    \/ \E e \in Missions : \E r \in StoreOutcomes : HandlerEpisodeDone(e, r)
    \/ \E e \in Missions : PauseSleepDone(e)
    \/ \E e \in Missions : \E d \in FrameReplies : ObserveDone(e, d)
    \/ \E e \in Missions : \E r \in StoreOutcomes : ObsEpisodeDone(e, r)
    \/ \E e \in Missions : \E r \in StoreOutcomes : ReplanDone(e, r)
    \/ \E e \in Missions : PaceDone(e)
    \/ \E e \in Missions : \E r \in StoreOutcomes : StoreResultDone(e, r)
    \/ \E e \in Missions : \E r \in StoreOutcomes : StorePatternDone(e, r)

(***************************************************************************)
(* SpecAct: the first iteration of the loop of executeMission, with        *)
(* executeAction and the action handlers step by step.  Each step is the   *)
(* turn of SpecMission for the observed execution, with what               *)
(* executeAction issued, read and returned recorded beside it.  While the  *)
(* observed execution is suspended at an await, another executeMission     *)
(* call may be invoked on the same controller and run its own turns.       *)
(***************************************************************************)
\* storeEpisode(content, type, importance); the importance is in tenths.
Episode(type, importance) == [type |-> type, importance |-> importance]
NoEpisode == Episode("none", 0)

\* What a handler returns: success, and for scanForPeople the indices of
\* the tracked objects it lists in peopleDetected.
ActionResult(success, people) ==
    [kind |-> "returned", success |-> success, peopleDetected |-> people]
ActionPending == [kind |-> "pending", success |-> FALSE, peopleDetected |-> <<>>]
ActionRaised == [kind |-> "raised", success |-> FALSE, peopleDetected |-> <<>>]

\* trackedObjects.filter((obj) => obj.classification === PERSON), as the
\* indices of the objects kept.
RECURSIVE PersonIndices(_, _)
PersonIndices(objs, i) ==
    IF i > Len(objs) THEN <<>>
    ELSE IF IsPerson(objs[i]) THEN <<i>> \o PersonIndices(objs, i + 1)
    ELSE PersonIndices(objs, i + 1)

\* The part of a handler before its await: the episode it goes on to write
\* (or NoEpisode), whether it sleeps afterwards, and the result it returns
\* once the write has settled.
HandlerStep(episode, sleeps, result) ==
    [episode |-> episode, sleeps |-> sleeps, result |-> result]

Refused == HandlerStep(NoEpisode, FALSE, ActionResult(FALSE, <<>>))

inspectArea(mission, ws) ==
    IF mission = NoActiveMission \/ ws = NoWorldState THEN Refused
    ELSE HandlerStep(Episode("inspection", 8), FALSE, ActionResult(TRUE, <<>>))

collectData(mission, ws) ==
    IF mission = NoActiveMission \/ ws = NoWorldState THEN Refused
    ELSE HandlerStep(Episode("data_collection", 7), FALSE, ActionResult(TRUE, <<>>))

deliverPackage(mission, ws) ==
    IF mission = NoActiveMission \/ ws = NoWorldState THEN Refused
    ELSE IF Len(PersonIndices(ws.trackedObjects, 1)) = 0 THEN Refused
    ELSE HandlerStep(Episode("delivery", 9), FALSE, ActionResult(TRUE, <<>>))

scanForPeople(mission, ws) ==
    IF mission = NoActiveMission \/ ws = NoWorldState THEN Refused
    ELSE LET peopleDetected == PersonIndices(ws.trackedObjects, 1)
         IN HandlerStep(IF Len(peopleDetected) > 0
                        THEN Episode("person_detection", 10) ELSE NoEpisode,
                        FALSE,
                        ActionResult(TRUE, peopleDetected))

pauseForSafety(ws) ==
    IF ws = NoWorldState THEN Refused
    ELSE HandlerStep(Episode("safety_pause", 8), TRUE, ActionResult(TRUE, <<>>))

\* The switch of executeAction.
Dispatch(type, mission, ws) ==
    CASE type = "continue_path" -> HandlerStep(NoEpisode, FALSE, ActionResult(TRUE, <<>>))
      [] type = "avoid_obstacle" -> HandlerStep(NoEpisode, FALSE, ActionResult(TRUE, <<>>))
      [] type = "inspect_area" -> inspectArea(mission, ws)
      [] type = "collect_data" -> collectData(mission, ws)
      [] type = "deliver_package" -> deliverPackage(mission, ws)
      [] type = "scan_for_people" -> scanForPeople(mission, ws)
      [] type = "return_to_base" -> HandlerStep(NoEpisode, FALSE, ActionResult(TRUE, <<>>))
      [] type = "pause_for_safety" -> pauseForSafety(ws)
      [] type = "abort" -> Refused
      [] OTHER -> Refused

\* The actions whose handler reads this.worldState.
SnapshotReaders ==
    {"inspect_area", "collect_data", "deliver_package", "scan_for_people",
     "pause_for_safety"}

\* The action types executeAction may be handed: what planNextAction
\* passes on is the collaborator's decision string.
ActionTypes == ActionOptions \cup {"abort", "fly_away"}

ActCategories ==
    {<<>>,
     <<"tree", "bicycle">>,
     <<"person", "vehicle">>,
     <<"Person", "tree", "PERSON">>,
     <<"Constructor", "drone">>}

\* What processFrame gives detectObjects in the observed execution:
\* detections that pass the threshold.
ActDetections == {WithConfidence(c, Confident) : c \in ActCategories}
ActFrameReplies == {[ok |-> TRUE, detections |-> d] : d \in ActDetections}

\* The execution whose iteration is followed step by step, and the other
\* executeMission call on the same controller.
Observed == "A"
Other == "B"

\* What the collaborators answer the other execution: a frame without a
\* detection or with two persons, the decision continue_path or a failure
\* of the decision call.
OtherFrameReplies ==
    {[ok |-> TRUE, detections |-> WithConfidence(c, Confident)] :
        c \in {<<>>, <<"person", "person">>}}
OtherDecisions == {"continue_path"}

\* The stage of the observed iteration, from the await the execution is
\* suspended at: "ended" once executeMission has raised, "evaluated" once
\* evaluateProgress has run and the REFLECT branches were taken.
ActStage(await) ==
    CASE await \in {"assess", "plan", "actEpisode", "handlerEpisode",
                    "pauseSleep", "observe", "obsEpisode"} -> await
      [] await = "raised" -> "ended"
      [] OTHER -> "evaluated"

\* detectObjects of assessSituation settles: the snapshot is stored in
\* this.worldState and returned, and planNextAction calls
\* makeStrategicDecision.
AssessSettled(reply) ==
    /\ AssessTurn(Observed, reply)
    /\ actOwn' = ctlWorld'
    /\ actPc' = ActStage(xpc'[Observed])
    /\ UNCHANGED <<actType, actSeen, actEpisodes, actResult, actEvalOn>>
    /\ UNCHANGED <<clientVars, evalVars, serverVars, clientsVars, loopVars>>

\* makeStrategicDecision settles.  With an action type, executeAction
\* runs up to its first await: the 'action' episode is written.  With a
\* failure, the catch of executeMission runs and executeAction is not
\* called.
ExecuteAction(reply) ==
    /\ PlanTurn(Observed, reply)
    /\ actPc' = ActStage(xpc'[Observed])
    /\ IF reply = "fail"
       THEN UNCHANGED <<actType, actEpisodes>>
       ELSE /\ actType' = reply
            /\ actEpisodes' = <<Episode("action", 7)>>
    /\ UNCHANGED <<actSeen, actResult, actOwn, actEvalOn>>
    /\ UNCHANGED <<clientVars, evalVars, serverVars, clientsVars, loopVars>>

\* The 'action' episode settles; the switch runs the handler up to its
\* own write, or to its return.  A rejected write raises to the catch of
\* executeMission.
ActionEpisodeSettled(r) ==
    /\ ActEpisodeTurn(Observed, r)
    /\ actPc' = ActStage(xpc'[Observed])
    /\ IF r = "fail"
       THEN /\ actResult' = ActionRaised
            /\ UNCHANGED <<actSeen, actEpisodes>>
       ELSE LET step == Dispatch(actType, ctlMission, ctlWorld)
            IN /\ actSeen' = IF actType \in SnapshotReaders
                             THEN ctlWorld ELSE NoWorldState
               /\ IF step.episode = NoEpisode
                  THEN /\ actResult' = step.result
                       /\ UNCHANGED actEpisodes
                  ELSE /\ actEpisodes' = Append(actEpisodes, step.episode)
                       /\ UNCHANGED actResult
    /\ UNCHANGED <<actType, actOwn, actEvalOn>>
    /\ UNCHANGED <<clientVars, evalVars, serverVars, clientsVars, loopVars>>

\* The handler's own episode settles.
HandlerEpisodeSettled(r) ==
    /\ HandlerEpisodeTurn(Observed, r)
    /\ actPc' = ActStage(xpc'[Observed])
    /\ IF r = "fail"
       THEN actResult' = ActionRaised
       ELSE LET step == Dispatch(actType, ctlMission, actSeen)
            IN IF step.sleeps
               THEN UNCHANGED actResult
               ELSE actResult' = step.result
    /\ UNCHANGED <<actType, actSeen, actEpisodes, actOwn, actEvalOn>>
    /\ UNCHANGED <<clientVars, evalVars, serverVars, clientsVars, loopVars>>

\* sleep(5000) of pauseForSafety resolves.
PauseElapsed ==
    /\ PauseSleepTurn(Observed)
    /\ actPc' = ActStage(xpc'[Observed])
    /\ actResult' = Dispatch(actType, ctlMission, actSeen).result
    /\ UNCHANGED <<actType, actSeen, actEpisodes, actOwn, actEvalOn>>
    /\ UNCHANGED <<clientVars, evalVars, serverVars, clientsVars, loopVars>>

\* detectObjects of observeOutcome settles: assessSituation stores the new
\* snapshot, updateWorldModel stores it again and writes the observation
\* episode.
ObserveSettled(reply) ==
    /\ ObserveTurn(Observed, reply)
    /\ actPc' = ActStage(xpc'[Observed])
    /\ actOwn' = ctlWorld'
    /\ actEpisodes' = Append(actEpisodes, Episode("observation", 5))
    /\ UNCHANGED <<actType, actSeen, actResult, actEvalOn>>
    /\ UNCHANGED <<clientVars, evalVars, serverVars, clientsVars, loopVars>>

\* The observation episode settles; evaluateProgress decides on the
\* controller's mission and world state and the REFLECT branches run: the
\* abort branch sets the status ABORTED and enters finalizeMission, a
\* rejected write raises to the catch of executeMission.
ObservationEpisodeSettled(r) ==
    /\ ObsEpisodeTurn(Observed, r)
    /\ actPc' = ActStage(xpc'[Observed])
    /\ IF r = "fail"
       THEN UNCHANGED actEvalOn
       ELSE actEvalOn' = ctlWorld
    /\ UNCHANGED <<actType, actSeen, actEpisodes, actResult, actOwn>>
    /\ UNCHANGED <<clientVars, evalVars, serverVars, clientsVars, loopVars>>

\* The observed execution through its first iteration, and the other
\* executeMission call, invoked at any of the observed one's awaits,
\* through its loop and finalizeMission.  No evaluation of these inputs
\* asks for replanning.
NextAct ==
    \/ \E d \in ActFrameReplies : AssessSettled(d)
    \/ \E t \in ActionTypes \cup {"fail"} : ExecuteAction(t)
    \/ \E r \in StoreOutcomes : ActionEpisodeSettled(r)
    \/ \E r \in StoreOutcomes : HandlerEpisodeSettled(r)
    \/ PauseElapsed
    \/ \E d \in ActFrameReplies : ObserveSettled(d)
    \/ \E r \in StoreOutcomes : ObservationEpisodeSettled(r)
    \/ StartMission(Other)
    \/ \E r \in StoreOutcomes : StartEpisodeDone(Other, r)
    \/ \E d \in OtherFrameReplies : AssessDone(Other, d)
    \/ \E a \in OtherDecisions \cup {"fail"} : PlanDone(Other, a)
    \/ \E r \in StoreOutcomes : ActEpisodeDone(Other, r)
    \/ \E d \in OtherFrameReplies : ObserveDone(Other, d)
    \/ \E r \in StoreOutcomes : ObsEpisodeDone(Other, r)
    \/ PaceDone(Other)
    \/ \E r \in StoreOutcomes : StoreResultDone(Other, r)
    \/ \E r \in StoreOutcomes : StorePatternDone(Other, r)

(***************************************************************************)
(* SpecServer: the mission routes of the HTTP server.  A request body is   *)
(* the JSON object express.json() parsed; a field is absent, the empty     *)
(* string or a non-empty string.                                           *)
(***************************************************************************)
FieldValues == {"undefined", "", "m-1"}
TypeValues == {"undefined", "", "delivery"}

MissionBodies == [id : FieldValues, type : TypeValues]

\* !value for a field that is absent or a string
Falsy(value) == value \in {"undefined", ""}

\* if (!mission.id || !mission.type) throw VALIDATION_ERROR
InvalidMission(body) == Falsy(body.id) \/ Falsy(body.type)

Response(status, code) == [status |-> status, code |-> code]

Handled(route, body, response) ==
    [route |-> route, body |-> body, response |-> response]

\* POST /api/missions
PostMission(body) ==
    /\ Len(srvLog) < MaxRequests
    /\ srvLog' = Append(srvLog,
            Handled("submit", body,
                    IF InvalidMission(body)
                    THEN Response(400, "VALIDATION_ERROR")
                    ELSE Response(200, "ok")))
    /\ UNCHANGED srvStarted
    /\ UNCHANGED <<clientVars, evalVars, missionVars, actVars, clientsVars, loopVars>>

\* executeMission as the execute route leaves it: invoked with the body,
\* suspended at the mission_start write it has sent.
Started(body) == [mission |-> body, pc |-> "startEpisode"]

\* POST /api/missions/:id/execute: req.body is handed to executeMission as
\* it is; the call is not awaited, and its synchronous head has run when
\* the response is sent: the body is the controller's mission, the
\* iteration counter is 0 and the mission_start write is in flight.
PostExecute(body) ==
    /\ Len(srvLog) < MaxRequests
    /\ ctlMission' = body
    /\ ctlIteration' = 0
    /\ srvStarted' = Append(srvStarted, Started(body))
    /\ srvLog' = Append(srvLog, Handled("execute", body, Response(200, "ok")))
    /\ UNCHANGED <<ctlWorld, mStatus, mObjectives, mCons, xpc, xAction, xEval,
                   xResult, xError, xAborted, xIter, xev>>
    /\ UNCHANGED <<clientVars, evalVars, actVars, clientsVars, loopVars>>

NextServer ==
    \/ \E body \in MissionBodies : PostMission(body)
    \/ \E body \in MissionBodies : PostExecute(body)

(***************************************************************************)
(* SpecClients: the collaborator clients the server constructs, each a     *)
(* BaseClient with the circuitBreaker object its constructor created.      *)
(* A step is one of the places where executeWithRetry or the response      *)
(* interceptor touches the breaker of the client it runs on.               *)
(***************************************************************************)
Services == {"videoAgent", "geoAgent", "mageAgent", "graphRAG"}

\* Mutation: the breaker object is one module-level object shared by all
\* instances.
BreakerOf_Shared(s) == "videoAgent"

\* this.circuitBreaker inside a method running on client s
BreakerOf(s) == s

\* The breaker check at the entry of executeWithRetry on client s.
ClientEntry(s) ==
    /\ LET cb == breakers[BreakerOf(s)]
       IN IF BreakerRejects(cb, now)
          THEN /\ svcEv' = [client |-> s, op |-> "reject"]
               /\ UNCHANGED breakers
          ELSE /\ svcEv' = [client |-> s, op |-> "admit"]
               /\ breakers' = [breakers EXCEPT ![BreakerOf(s)] = BreakerAfterCheck(cb)]
    /\ UNCHANGED <<clientVars, evalVars, missionVars, actVars, serverVars, loopVars>>

\* A retryable failure of an attempt on client s.
ClientFailure(s) ==
    /\ breakers[BreakerOf(s)].failures < FailureThreshold + ExtraFailures
    /\ svcEv' = [client |-> s, op |-> "failure"]
    /\ breakers' = [breakers EXCEPT ![BreakerOf(s)] =
                      incrementCircuitBreakerFailure(@, now)]
    /\ UNCHANGED <<clientVars, evalVars, missionVars, actVars, serverVars, loopVars>>

\* A successful response on client s.
ClientSuccess(s) ==
    /\ svcEv' = [client |-> s, op |-> "success"]
    /\ breakers' = [breakers EXCEPT ![BreakerOf(s)] = resetCircuitBreaker(@)]
    /\ UNCHANGED <<clientVars, evalVars, missionVars, actVars, serverVars, loopVars>>

\* The reset timeout passes.
ClientsWait ==
    /\ now + ResetTimeoutMs <= MaxWaits * ResetTimeoutMs
    /\ now' = now + ResetTimeoutMs
    /\ svcEv' = [client |-> "none", op |-> "wait"]
    /\ UNCHANGED <<circuitBreaker, pc, attempt, wake, delays, lastResult,
                   health, admittedIn, calls, consecFails, tripped, ev>>
    /\ UNCHANGED <<breakers, evalVars, missionVars, actVars, serverVars, loopVars>>

NextClients ==
    \/ \E s \in Services : ClientEntry(s)
    \/ \E s \in Services : ClientFailure(s)
    \/ \E s \in Services : ClientSuccess(s)
    \/ ClientsWait

(***************************************************************************)
(* SpecLoop: the while loop of executeMission for the two calls, await by  *)
(* await as in SpecMission, with the loop iterations each call has begun   *)
(* counted without a cap.  The loop condition and the increment act on the *)
(* controller's mission and iteration fields.  The collaborators answer    *)
(* so that an iteration has no handler write: the frame has no detection,  *)
(* the decision is continue_path or the decision call fails, and the       *)
(* writes of the body succeed.  A mission with an objective left is within *)
(* the calm limits, so that no evaluation asks for replanning.  The        *)
(* mission_start write and the writes of finalizeMission succeed or fail.  *)
(***************************************************************************)
LoopFrameReplies == {[ok |-> TRUE, detections |-> <<>>]}
LoopDecisions == {"continue_path"}
LoopBodyWrites == {"ok"}

\* executeMission up to its first await.
LoopInvoke(e) ==
    /\ xpc[e] = "idle"
    /\ e = "B" => xpc["A"] # "idle"
    /\ ctlMission' = e
    /\ ctlIteration' = 0
    /\ xpc' = [xpc EXCEPT ![e] = "startEpisode"]
    /\ UNCHANGED <<ctlWorld, mStatus, mObjectives, mCons, xAction, xEval,
                   xResult, xError, xAborted, xIter, loopIter>>
    /\ xev' = NoEvent
    /\ UNCHANGED <<clientVars, evalVars, actVars, serverVars, clientsVars>>

\* this.iteration++ at the head of the body: execution e has begun one
\* more iteration.
IterationBegun(e) ==
    loopIter' = [loopIter EXCEPT ![e] =
                    IF ctlIteration' = ctlIteration + 1 THEN @ + 1 ELSE @]

\* The mission_start write settles and the while condition is tested for
\* the first time.
LoopEntered(e, r) ==
    /\ StartEpisodeSettled(e, r)
    /\ IterationBegun(e)
    /\ UNCHANGED <<clientVars, evalVars, actVars, serverVars, clientsVars>>

\* sleep(100) resolves and the while condition is tested again.
LoopRepeated(e) ==
    /\ PaceElapsed(e)
    /\ IterationBegun(e)
    /\ UNCHANGED <<clientVars, evalVars, actVars, serverVars, clientsVars>>

NextLoop ==
    \/ \E e \in Missions : LoopInvoke(e)
    \/ \E e \in Missions : \E r \in StoreOutcomes : LoopEntered(e, r)
    \/ \E e \in Missions : \E d \in LoopFrameReplies : AssessDone(e, d)
    \/ \E e \in Missions : \E a \in LoopDecisions \cup {"fail"} : PlanDone(e, a)
    \/ \E e \in Missions : \E r \in LoopBodyWrites : ActEpisodeDone(e, r)
    \/ \E e \in Missions : \E d \in LoopFrameReplies : ObserveDone(e, d)
    \/ \E e \in Missions : \E r \in LoopBodyWrites : ObsEpisodeDone(e, r)
    \/ \E e \in Missions : LoopRepeated(e)
    \/ \E e \in Missions : \E r \in StoreOutcomes : StoreResultDone(e, r)
    \/ \E e \in Missions : \E r \in StoreOutcomes : StorePatternDone(e, r)

(***************************************************************************)
(* Initial states and specifications                                       *)
(***************************************************************************)
InitEvalIdle ==
    /\ evalMission = NoMission
    /\ evalWorld = NoWorldState
    /\ evalResult = PendingDecision

InitActIdle ==
    /\ actPc = "assess"
    /\ actType = "none"
    /\ actSeen = NoWorldState
    /\ actEpisodes = <<>>
    /\ actResult = ActionPending
    /\ actOwn = NoWorldState
    /\ actEvalOn = NoWorldState

InitServerIdle ==
    /\ srvLog = <<>>
    /\ srvStarted = <<>>

\* Every client instance starts with the breaker its constructor builds.
InitClientsIdle ==
    /\ breakers = [s \in Services |->
                     [failures |-> 0, lastFailureTime |-> 0, state |-> "CLOSED"]]
    /\ svcEv = [client |-> "none", op |-> "init"]

InitLoopIdle == loopIter = [e \in Missions |-> 0]

InitSideIdle ==
    InitActIdle /\ InitServerIdle /\ InitClientsIdle /\ InitLoopIdle

InitControllerIdle ==
    /\ ctlMission = NoActiveMission
    /\ ctlWorld = NoWorldState
    /\ ctlIteration = 0
    /\ xpc = [e \in Missions |-> "idle"]
    /\ xAction = [e \in Missions |-> "none"]
    /\ xEval = [e \in Missions |-> PendingDecision]
    /\ xResult = [e \in Missions |-> NoResult]
    /\ xError = [e \in Missions |-> NoError]
    /\ xAborted = [e \in Missions |-> FALSE]
    /\ xIter = [e \in Missions |-> 0]
    /\ xev = NoEvent

InitNoMissions ==
    /\ InitControllerIdle
    /\ mStatus = [e \in Missions |-> "READY"]
    /\ mObjectives = [e \in Missions |-> <<FALSE>>]
    /\ mCons = [e \in Missions |-> CalmLimits]

\* One client, nobody calling yet.
Init ==
    /\ InitClientIdle
    /\ InitEvalIdle
    /\ InitNoMissions
    /\ InitSideIdle

Spec == Init /\ [][Next]_vars

\* evaluateProgress on every enumerated input.
InitEval ==
    /\ InitClientIdle
    /\ InitNoMissions
    /\ evalMission \in EvalConstraints
    /\ evalWorld \in EvalWorldStates
    /\ evalResult = PendingDecision
    /\ InitSideIdle

SpecEval == InitEval /\ [][NextEval]_vars

\* Missions as submitted, controller freshly constructed.
InitMission ==
    /\ InitClientIdle
    /\ InitEvalIdle
    /\ InitControllerIdle
    /\ \E prof \in [Missions -> MissionProfiles] :
          /\ mStatus = [e \in Missions |-> prof[e].status]
          /\ mObjectives = [e \in Missions |-> prof[e].objectives]
          /\ mCons = [e \in Missions |-> prof[e].cons]
    /\ InitSideIdle

SpecMission == InitMission /\ [][NextMission]_vars

\* The controller holds the mission of the observed execution, which the
\* first loop test found not complete, and that execution is at the head
\* of its first iteration, awaiting the detections of assessSituation; the
\* other execution has not been invoked.
InitAct ==
    /\ InitClientIdle
    /\ InitEvalIdle
    /\ InitActIdle
    /\ InitServerIdle
    /\ InitClientsIdle
    /\ InitLoopIdle
    /\ ctlMission = Observed
    /\ ctlWorld = NoWorldState
    /\ ctlIteration = 1
    /\ xpc = [e \in Missions |-> IF e = ctlMission THEN "assess" ELSE "idle"]
    /\ xAction = [e \in Missions |-> "none"]
    /\ xEval = [e \in Missions |-> PendingDecision]
    /\ xResult = [e \in Missions |-> NoResult]
    /\ xError = [e \in Missions |-> NoError]
    /\ xAborted = [e \in Missions |-> FALSE]
    /\ xIter = [e \in Missions |-> IF e = ctlMission THEN 1 ELSE 0]
    /\ xev = NoEvent
    /\ \E prof \in [Missions -> MissionProfiles] :
          /\ mStatus = [e \in Missions |-> prof[e].status]
          /\ mObjectives = [e \in Missions |-> prof[e].objectives]
          /\ mCons = [e \in Missions |-> prof[e].cons]
    /\ ~isMissionComplete(mStatus)

SpecAct == InitAct /\ [][NextAct]_vars

\* The server has started and no request has arrived.
SpecServer == Init /\ [][NextServer]_vars

\* Missions as submitted, those with an objective left within the calm
\* limits; controller freshly constructed.
LoopProfiles ==
    {p \in MissionProfiles : p.cons = CalmLimits \/ p.status = "COMPLETED"}

InitLoop ==
    /\ InitClientIdle
    /\ InitEvalIdle
    /\ InitControllerIdle
    /\ \E prof \in [Missions -> LoopProfiles] :
          /\ mStatus = [e \in Missions |-> prof[e].status]
          /\ mObjectives = [e \in Missions |-> prof[e].objectives]
          /\ mCons = [e \in Missions |-> prof[e].cons]
    /\ InitSideIdle

SpecLoop == InitLoop /\ [][NextLoop]_vars

\* The clients as constructed at server start.
SpecClients == Init /\ [][NextClients]_vars

\* One executeMission call alone on a freshly constructed controller: the
\* steps of the first execution.  Every awaited collaborator call settles
\* and every timer fires, so a step that is possible is eventually taken.
SingleExecution == "A"

NextSingle ==
    \/ StartMission(SingleExecution)
    \/ \E r \in StoreOutcomes : StartEpisodeDone(SingleExecution, r)
    \/ \E d \in FrameReplies : AssessDone(SingleExecution, d)
    \/ \E a \in DecisionReplies \cup {"fail"} : PlanDone(SingleExecution, a)
    \/ \E r \in StoreOutcomes : ActEpisodeDone(SingleExecution, r)
    \/ \E r \in StoreOutcomes : HandlerEpisodeDone(SingleExecution, r)
    \/ PauseSleepDone(SingleExecution)
    \/ \E d \in FrameReplies : ObserveDone(SingleExecution, d)
    \/ \E r \in StoreOutcomes : ObsEpisodeDone(SingleExecution, r)
    \/ \E r \in StoreOutcomes : ReplanDone(SingleExecution, r)
    \/ PaceDone(SingleExecution)
    \/ \E r \in StoreOutcomes : StoreResultDone(SingleExecution, r)
    \/ \E r \in StoreOutcomes : StorePatternDone(SingleExecution, r)

SpecSingle == InitMission /\ [][NextSingle]_vars /\ WF_vars(NextSingle)

(***************************************************************************)
(* Properties of the progress evaluator and of the mission loop            *)
(***************************************************************************)
Present(x) == x # Absent

\* The rule list as the specification states it: each threshold rule
\* compares the measured value with the configured limit.
RuleDecision(m, ws) ==
    IF CountHighPriorityPersons(ws.trackedObjects) > 3
    THEN Decision(TRUE, FALSE, "crowd")
    ELSE IF Present(ws.windSpeed) /\ Present(m.maxWindSpeed)
            /\ ws.windSpeed > m.maxWindSpeed
    THEN Decision(FALSE, TRUE, "wind")
    ELSE IF Present(ws.visibility) /\ Present(m.minVisibility)
            /\ ws.visibility < m.minVisibility
    THEN Decision(FALSE, TRUE, "visibility")
    ELSE IF ws.battery < (IF Present(m.batteryReserve) THEN m.batteryReserve ELSE 20)
    THEN Decision(FALSE, TRUE, "battery")
    ELSE IF ws.errors > 0
    THEN Decision(TRUE, FALSE, "errors")
    ELSE Decision(FALSE, FALSE, "none")

\* C9: the evaluator returns the decision of the first rule, in the order
\* crowd, wind, visibility, battery, errors, whose condition holds of the
\* mission's limits and the world state, and continue when none holds.
C9_FirstMatchWins ==
    evalResult.reason # "pending" => evalResult = RuleDecision(evalMission, evalWorld)

\* C10: once the evaluator has returned abort to an execution, that
\* execution starts no further iteration and the MissionResult built by its
\* finalization has status ABORTED.
PostLoop == {"storeResult", "storePattern", "returned", "raised"}

C10_AbortEndsMission ==
    \A e \in Missions :
        xAborted[e] =>
            /\ xpc[e] \in PostLoop
            /\ xResult[e] # NoResult
            /\ xResult[e].status = "ABORTED"

\* The awaits of executeMission at which a knowledge-store write is pending,
\* and those that lie inside a loop iteration.
StoreAwaits ==
    {"startEpisode", "actEpisode", "handlerEpisode", "obsEpisode", "replan",
     "storeResult", "storePattern"}
IterationAwaits ==
    {"assess", "plan", "actEpisode", "handlerEpisode", "pauseSleep", "observe",
     "obsEpisode", "replan", "pace"}
Finalized == {"storeResult", "storePattern", "returned"}
Finished == {"returned", "raised"}

AllComplete(objs) == \A i \in 1..Len(objs) : objs[i]

\* Execution e has run n loop iterations, as far as xIter counts them.
RanIterations(e, n) == xIter[e] = Min(n, IterCap)

\* C11: no step that an execution takes at the await of a knowledge-store
\* write makes executeMission raise or sets the mission status to FAILED.
C11_StoreFailureNotFatal ==
    [][\A e \in Missions :
         (xpc[e] \in StoreAwaits /\ xpc'[e] # xpc[e]) =>
            /\ xpc'[e] # "raised"
            /\ mStatus'[e] = "FAILED" => mStatus[e] = "FAILED"]_vars

\* C12: when a step of iteration i fails, the mission status becomes FAILED,
\* the execution runs nothing more, and the MissionError it raises carries
\* the mission's identifier and, as iteration number, the number of
\* iterations this execution has begun.
C12_IterationFailure ==
    [][\A e \in Missions :
         /\ (xpc[e] \in IterationAwaits /\ xpc'[e] = "raised") =>
               /\ mStatus'[e] = "FAILED"
               /\ xError'[e] = [kind |-> "MissionError", missionId |-> e]
               /\ xIter[e] < IterCap => ctlIteration' = xIter[e]
         /\ xpc[e] = "raised" => xpc'[e] = "raised"]_vars

\* C13: the MissionResult of execution e carries e's identifier and e's
\* objective counts.
C13_ResultIsOwn ==
    \A e \in Missions :
        xResult[e] # NoResult =>
            /\ xResult[e].missionId = e
            /\ xResult[e].objectivesCompleted = CompletedCount(mObjectives[e])
            /\ xResult[e].objectivesTotal = Len(mObjectives[e])

\* C14: an execution whose mission has every objective completed runs no
\* iteration, and the result it returns has status COMPLETED.
C14_NothingToDo ==
    \A e \in Missions :
        AllComplete(mObjectives[e]) =>
            /\ RanIterations(e, 0)
            /\ xpc[e] = "returned" => xResult[e].status = "COMPLETED"

\* C15: an execution whose mission has an incomplete objective and that
\* reaches finalization without an abort has run maxIterations iterations,
\* and its MissionResult carries the status the mission holds.
C15_RunsToMaxIterations ==
    \A e \in Missions :
        (xpc[e] \in Finalized /\ ~xAborted[e] /\ ~AllComplete(mObjectives[e])) =>
            /\ RanIterations(e, maxIterations)
            /\ xResult[e].status = mStatus[e]

\* C16: when executeMission has returned or raised, the status of its
\* mission is COMPLETED, FAILED or ABORTED.
C16_EndsTerminal ==
    \A e \in Missions :
        xpc[e] \in Finished => mStatus[e] \in {"COMPLETED", "FAILED", "ABORTED"}

\* C17: an execution that has ended, by returning or by raising its
\* MissionError, has created a MissionResult.
C17_ResultOnEveryExit ==
    \A e \in Missions :
        (xpc[e] \in Finished /\ xError[e] # [kind |-> "RoboticsError",
                                             missionId |-> NoActiveMission]) =>
            xResult[e] # NoResult

\* C18: when the decision call of an execution fails, no action is put in
\* its place: the execution holds no action, its mission is FAILED and it
\* has raised a MissionError.
C18_NoDefaultAction ==
    xev.call = "makeStrategicDecision" =>
        /\ xev.outcome = "raised"
        /\ xpc[xev.e] = "raised"
        /\ xAction[xev.e] = "none"
        /\ mStatus[xev.e] = "FAILED"
        /\ xError[xev.e] = [kind |-> "MissionError", missionId |-> xev.e]

\* The decision call failed in a later iteration of an execution while the
\* other execution was in its loop.
C18_Witness ==
    /\ xev.call = "makeStrategicDecision"
    /\ xIter[xev.e] = IterCap
    /\ \E o \in Missions \ {xev.e} : xpc[o] \in IterationAwaits

\* C19: when detectObjects fails, the assessment still yields a snapshot,
\* with no tracked objects, and the execution goes on (to planning after
\* the assessment of the REASON step) with nothing raised and the mission
\* not FAILED.
C19_PerceptionFailureAbsorbed ==
    xev.call = "detectObjects" =>
        /\ xev.outcome = "absorbed"
        /\ xpc[xev.e] \in {"plan", "obsEpisode"}
        /\ ctlWorld # NoWorldState
        /\ ctlWorld.trackedObjects = <<>>
        /\ xError[xev.e] = NoError
        /\ mStatus[xev.e] # "FAILED"

\* Perception failed in the REASON step and the execution is at planning.
C19_Witness ==
    /\ xev.call = "detectObjects"
    /\ xpc[xev.e] = "plan"
    /\ xIter[xev.e] >= 1

\* C20: the success pattern is written only by an execution whose
\* MissionResult has status COMPLETED and whose mission ended COMPLETED.
C20_PatternOnlyWhenCompleted ==
    \A e \in Missions :
        xpc[e] = "storePattern" =>
            /\ xResult[e].status = "COMPLETED"
            /\ mStatus[e] = "COMPLETED"

(***************************************************************************)
(* Properties of the resilient client                                      *)
(***************************************************************************)
StartStep(c) == calls' = calls + 1 /\ ev'.c = c
RespondStep(c) == ev'.op = "respond" /\ ev'.c = c /\ pc[c] = "request"
RetryableStatus(s) == s # 200 /\ ~IsClientError(s)
InFlight(c) == pc[c] # "idle"

\* C1: once the failure counter has reached the threshold 5, every call
\* that starts less than 30 s after the last recorded failure fails at once
\* with CIRCUIT_BREAKER_OPEN, without a transport attempt and without
\* touching the breaker; the first call that starts 30 s or more after the
\* last recorded failure is passed to the transport and the breaker is
\* HALF_OPEN.
C1_ThresholdFastFail ==
    [][\A c \in Callers :
         (StartStep(c) /\ tripped) =>
            IF now - circuitBreaker.lastFailureTime < ResetTimeoutMs
            THEN /\ ev'.op = "reject"
                 /\ pc'[c] = "idle"
                 /\ lastResult'[c] = "CIRCUIT_BREAKER_OPEN"
                 /\ circuitBreaker' = circuitBreaker
            ELSE /\ ev'.op = "send"
                 /\ pc'[c] = "request"
                 /\ circuitBreaker'.state = "HALF_OPEN"]_vars

\* C2: no transport attempt is issued while the breaker is OPEN and the
\* reset timeout has not elapsed.
C2_NoTransportWhileOpen ==
    ~(ev.op = "send" /\ BreakerRejects(circuitBreaker, now))

\* C3: while the breaker is HALF_OPEN at most one call admitted as probe
\* is in flight.
C3_SingleProbe ==
    circuitBreaker.state = "HALF_OPEN" =>
        Cardinality({c \in Callers : InFlight(c) /\ admittedIn[c] = "HALF_OPEN"}) <= 1

\* C4: the breaker state changes only along CLOSED->OPEN, OPEN->HALF_OPEN,
\* HALF_OPEN->CLOSED and HALF_OPEN->OPEN.
AllowedTransitions ==
    {<<"CLOSED", "OPEN">>, <<"OPEN", "HALF_OPEN">>,
     <<"HALF_OPEN", "CLOSED">>, <<"HALF_OPEN", "OPEN">>}

C4_TransitionsOnly ==
    [][circuitBreaker'.state # circuitBreaker.state =>
         <<circuitBreaker.state, circuitBreaker'.state>> \in AllowedTransitions]_vars

\* C5: for a call admitted in HALF_OPEN, a successful response leaves the
\* counter at 0 and the state CLOSED, and a retryable failure leaves the
\* state OPEN with the window restarted at the time of the failure.
C5_ProbeOutcome ==
    [][\A c \in Callers :
         (RespondStep(c) /\ admittedIn[c] = "HALF_OPEN") =>
            /\ ev'.status = 200 =>
                 /\ circuitBreaker'.failures = 0
                 /\ circuitBreaker'.state = "CLOSED"
            /\ RetryableStatus(ev'.status) =>
                 /\ circuitBreaker'.state = "OPEN"
                 /\ circuitBreaker'.lastFailureTime = now]_vars

\* C6: an attempt answered with a client error ends the call at once: the
\* caller neither sleeps nor retries, and the breaker is left as it was.
C6_ClientErrorNoRetry ==
    [][\A c \in Callers :
         (RespondStep(c) /\ IsClientError(ev'.status) /\ ev'.status # 200) =>
            /\ pc'[c] = "idle"
            /\ lastResult'[c] = "CLIENT_ERROR"
            /\ circuitBreaker' = circuitBreaker
            /\ delays' = delays
            /\ wake' = wake
            /\ attempt' = attempt]_vars

\* A first attempt was answered 404 while the breaker had recorded failures.
C6_Witness ==
    /\ ev.op = "respond"
    /\ ev.status = 404
    /\ attempt[ev.c] = 1
    /\ pc[ev.c] = "idle"
    /\ circuitBreaker.failures > 0

\* C7: a call whose attempts all failed retryably has made exactly
\* MAX_RETRY_ATTEMPTS attempts when it raises its SERVICE_ERROR, having slept
\* exactly <<1000, 2000>> between them and nothing after the last; a
\* successful response ends the call at that attempt, after one sleep per
\* earlier failure; a retryable failure short of the last attempt is always
\* followed by the sleep and the next attempt.
ExpectedDelays(k) == SubSeq(<<1000, 2000>>, 1, k)

C7_RetryBudget ==
    \A c \in Callers :
        /\ attempt[c] <= MAX_RETRY_ATTEMPTS
        /\ lastResult[c] = "SERVICE_ERROR" =>
             /\ pc[c] = "idle"
             /\ attempt[c] = 3
             /\ delays[c] = <<1000, 2000>>
        /\ lastResult[c] = "ok" =>
             /\ pc[c] = "idle"
             /\ delays[c] = ExpectedDelays(attempt[c] - 1)
        /\ pc[c] = "sleep" =>
             /\ attempt[c] < 3
             /\ delays[c] = ExpectedDelays(attempt[c])
             /\ wake[c] <= now + delays[c][attempt[c]]
        /\ pc[c] = "request" => delays[c] = ExpectedDelays(attempt[c] - 1)

\* A call has exhausted its three attempts.
C7_Witness ==
    \E c \in Callers :
        /\ lastResult[c] = "SERVICE_ERROR"
        /\ attempt[c] = 3
        /\ Len(delays[c]) = 2

\* C8: a retryable failure adds one to the counter, a success while CLOSED
\* sets it to 0, and the breaker leaves CLOSED only on the fifth retryable
\* failure in a row.
C8_CounterDiscipline ==
    [][/\ \A c \in Callers :
            RespondStep(c) =>
              /\ RetryableStatus(ev'.status) =>
                   circuitBreaker'.failures = circuitBreaker.failures + 1
              /\ (ev'.status = 200 /\ circuitBreaker.state = "CLOSED") =>
                   /\ circuitBreaker'.failures = 0
                   /\ circuitBreaker'.state = "CLOSED"
       /\ (circuitBreaker.state = "CLOSED" /\ circuitBreaker'.state # "CLOSED") =>
            /\ ev'.op = "respond"
            /\ RetryableStatus(ev'.status)
            /\ consecFails' = FailureThreshold]_vars

\* The breaker has just opened on the fifth failure in a row, after an
\* earlier call had succeeded.
C8_Witness ==
    /\ ev.op = "respond"
    /\ circuitBreaker.state = "OPEN"
    /\ consecFails = FailureThreshold
    /\ \E c \in Callers : lastResult[c] = "ok"

(***************************************************************************)
(* Properties of the health check                                          *)
(***************************************************************************)
Ended(c) == lastResult[c] \notin {"none", "pending"}

\* C21: the health check never raises: whenever the call it wraps has ended,
\* it has returned true if the call succeeded and false if the call ended
\* with retry exhaustion, a client error or the fast-fail of an OPEN breaker.
C21_HealthCheckNeverRaises ==
    \A c \in Callers :
        Ended(c) =>
            /\ health[c] # "raised"
            /\ health[c] = "true" <=> lastResult[c] = "ok"
            /\ health[c] = "false" <=>
                  lastResult[c] \in {"SERVICE_ERROR", "CLIENT_ERROR",
                                     "CIRCUIT_BREAKER_OPEN"}

\* A health check was failed fast by the OPEN breaker while another ended
\* with its retries exhausted.
C21_Witness ==
    \E c, d \in Callers :
        /\ lastResult[c] = "CIRCUIT_BREAKER_OPEN" /\ health[c] = "false"
        /\ lastResult[d] = "SERVICE_ERROR" /\ health[d] = "false"

(***************************************************************************)
(* Properties of executeAction and the action handlers                     *)
(***************************************************************************)
\* The handler of the current executeAction call has run on a snapshot.
HandlerRan == actSeen # NoWorldState

\* executeAction has returned or raised.
ActionOver == actPc \in {"observe", "obsEpisode", "evaluated", "ended"}

EpisodeTypes(episodes) == {episodes[i].type : i \in 1..Len(episodes)}

\* The snapshot the executeAction call in progress is executed against:
\* the one its handler read, or this.worldState while the handler has not
\* read it.
ExecutedAgainst == IF HandlerRan THEN actSeen ELSE ctlWorld

\* The step in which the executeAction call in progress returns or raises.
ActionEnds == actResult = ActionPending /\ actResult' # ActionPending

\* C22: deliver_package executed against a world state without a
\* person-classified tracked object returns success=false, does not raise
\* and writes no delivery episode; no completion flag of any objective
\* changes.
C22_DeliveryNeedsRecipient ==
    [][(/\ actType = "deliver_package"
        /\ ActionEnds
        /\ ExecutedAgainst # NoWorldState
        /\ CountPersons(ExecutedAgainst.trackedObjects) = 0)
        => /\ actResult' = ActionResult(FALSE, <<>>)
           /\ "delivery" \notin EpisodeTypes(actEpisodes')
           /\ mObjectives' = mObjectives]_vars

\* C23: scan_for_people returns success=true with exactly the
\* person-classified tracked objects of the snapshot it read, and writes an
\* episode of importance 1.0 if and only if that list is not empty.
C23_ScanReturnsPeople ==
    (actType = "scan_for_people" /\ HandlerRan /\ ActionOver)
        => /\ actResult =
                ActionResult(TRUE, PersonIndices(actSeen.trackedObjects, 1))
           /\ Episode("person_detection", 10) \in
                  {actEpisodes[i] : i \in 1..Len(actEpisodes)}
                <=> CountPersons(actSeen.trackedObjects) > 0

QuietActions == {"abort", "return_to_base", "continue_path", "avoid_obstacle"}

\* A step of executeAction: from the decision to the return of the
\* handler.
ExecuteActionStep == actPc \in {"plan", "actEpisode"} /\ actPc' # actPc

\* C24: executing abort, return_to_base, continue_path or avoid_obstacle
\* issues no knowledge-store write and leaves every mission status as it
\* was; abort returns success=false.
C24_QuietActions ==
    [][(actType' \in QuietActions /\ ExecuteActionStep)
        => /\ actEpisodes' = <<>>
           /\ mStatus' = mStatus
           /\ (actType' = "abort" /\ actResult'.kind = "returned")
                 => actResult'.success = FALSE]_vars

ClosedActionSet ==
    {"continue_path", "avoid_obstacle", "inspect_area", "collect_data",
     "deliver_package", "scan_for_people", "return_to_base",
     "pause_for_safety", "abort"}

\* C25: every action the planner returns and the executor dispatches is a
\* member of the closed action set, whatever the reasoning collaborator
\* replied.
C25_ClosedActionSet ==
    \A e \in Missions : xAction[e] # "none" => xAction[e] \in ClosedActionSet

(***************************************************************************)
(* Properties of the mission routes                                        *)
(***************************************************************************)
\* C26: a mission definition without an identifier or without a type is
\* rejected with a validation error on the submission route and on the
\* execute route alike, and executeMission is never started for it.
C26_InvalidMissionRejected ==
    /\ \A i \in 1..Len(srvLog) :
          InvalidMission(srvLog[i].body)
              => srvLog[i].response = Response(400, "VALIDATION_ERROR")
    /\ \A i \in 1..Len(srvStarted) : ~InvalidMission(srvStarted[i].mission)

(***************************************************************************)
(* Properties of the breakers of several clients                           *)
(***************************************************************************)
\* C27: breaker state is scoped to one client instance: a failure, a
\* success or a fast-fail on one client leaves the failure counter, the
\* last-failure time and the state of every other client's breaker as they
\* were.
C27_BreakerPerClient ==
    [][\A s \in Services :
          s # svcEv'.client => breakers'[s] = breakers[s]]_vars

\* One client has just failed a call fast while another client's breaker
\* is HALF_OPEN and a third is CLOSED with failures counted.
C27_Witness ==
    \E s, t, u \in Services :
        /\ svcEv = [client |-> s, op |-> "reject"]
        /\ breakers[s].state = "OPEN"
        /\ breakers[t].state = "HALF_OPEN"
        /\ breakers[u].state = "CLOSED"
        /\ breakers[u].failures > 0

(***************************************************************************)
(* Properties of the assessor's classification                             *)
(***************************************************************************)
\* The classification and the priority the fixed tables give a lower-cased
\* category.
TableClassification(lower) ==
    IF lower \in {"person", "vehicle", "bicycle", "animal", "building", "tree",
                  "sign", "traffic_light", "package", "equipment",
                  "infrastructure"}
    THEN lower ELSE "unknown"

TablePriority(lower) ==
    CASE lower = "person" -> "HIGH"
      [] lower = "vehicle" -> "HIGH"
      [] lower = "bicycle" -> "MEDIUM"
      [] OTHER -> "LOW"

\* C28: every tracked object of a snapshot carries the classification the
\* fixed table gives its category, compared without regard to case, with
\* unknown for a category the table does not list, and the priority
\* person->HIGH, vehicle->HIGH, bicycle->MEDIUM, else LOW; so an object
\* classified person has priority HIGH.
C28_ClassificationTable ==
    ctlWorld # NoWorldState =>
        \A i \in 1..Len(ctlWorld.trackedObjects) :
            LET obj == ctlWorld.trackedObjects[i]
            IN /\ obj.classification = TableClassification(ToLowerCase(obj.category))
               /\ obj.priority = TablePriority(ToLowerCase(obj.category))
               /\ obj.classification = "person" => obj.priority = "HIGH"

(***************************************************************************)
(* Properties of the iteration bound                                       *)
(***************************************************************************)
\* C29: each executeMission call performs at most maxIterations loop
\* iterations of its own mission, also when another call is started on the
\* same controller while it runs.
C29_OwnIterationsBounded ==
    \A e \in Missions : loopIter[e] <= maxIterations

(***************************************************************************)
(* Properties of the order of steps within an iteration                    *)
(***************************************************************************)
\* The steps of an iteration in the order the claim gives: assess, plan,
\* execute (with the handler's own awaits), observe, update, evaluate.
IterationOrder ==
    {<<"assess", "plan">>,
     <<"plan", "actEpisode">>,
     <<"actEpisode", "handlerEpisode">>, <<"actEpisode", "observe">>,
     <<"handlerEpisode", "pauseSleep">>, <<"handlerEpisode", "observe">>,
     <<"pauseSleep", "observe">>,
     <<"observe", "obsEpisode">>,
     <<"obsEpisode", "evaluated">>}

\* C30: within an iteration the steps run in the order assess, plan,
\* execute, observe, update, evaluate, each after the previous one has
\* completed; the handler acts on the snapshot the iteration's assessment
\* took, and the evaluator decides on the snapshot the observation took
\* after the action.
C30_IterationOrder ==
    [][/\ actPc' # actPc =>
            (<<actPc, actPc'>> \in IterationOrder \/ actPc' = "ended")
       /\ (actSeen = NoWorldState /\ actSeen' # NoWorldState)
            => actSeen' = actOwn
       /\ (actEvalOn = NoWorldState /\ actEvalOn' # NoWorldState)
            => actEvalOn' = actOwn]_vars

(***************************************************************************)
(* Properties of replanning and of termination                             *)
(***************************************************************************)
\* C31: when the evaluation of an iteration asks for replanning, the step
\* that follows the replanning call leaves the status and the objectives of
\* every mission as they were and takes the execution to the pause before
\* the next test of the loop condition; it neither raises nor finalizes.
C31_ReplanContinues ==
    [][\A e \in Missions :
         (xpc[e] = "replan" /\ xpc'[e] # xpc[e]) =>
            /\ xpc'[e] = "pace"
            /\ mStatus' = mStatus
            /\ mObjectives' = mObjectives]_vars

\* C32: a single execution, once invoked, eventually returns or raises,
\* given that every collaborator call settles; it never begins more than
\* maxIterations iterations, and when it returns it holds a MissionResult.
C32_SingleExecutionTerminates ==
    /\ [](ctlIteration <= maxIterations)
    /\ [](xpc[SingleExecution] = "returned" => xResult[SingleExecution] # NoResult)
    /\ (xpc[SingleExecution] # "idle") ~> (xpc[SingleExecution] \in Finished)

\* The execution has returned its result after the fiftieth iteration.
C32_Witness ==
    /\ xpc[SingleExecution] = "returned"
    /\ ctlIteration = maxIterations
    /\ xResult[SingleExecution] # NoResult

(***************************************************************************)
(* Properties of the breaker's state and of rejected calls                 *)
(***************************************************************************)
\* C33: in every reachable state of the breaker, CLOSED goes with a failure
\* counter of at most 4, and OPEN or HALF_OPEN with a counter of at least 5.
C33_StateMatchesCount ==
    /\ circuitBreaker.state \in {"CLOSED", "OPEN", "HALF_OPEN"}
    /\ circuitBreaker.state = "CLOSED" =>
          circuitBreaker.failures <= FailureThreshold - 1
    /\ circuitBreaker.state \in {"OPEN", "HALF_OPEN"} =>
          circuitBreaker.failures >= FailureThreshold

\* A call has been admitted with the breaker HALF_OPEN after a failure
\* beyond the fifth had been counted while it was OPEN.
C33_Witness ==
    /\ circuitBreaker.state = "HALF_OPEN"
    /\ circuitBreaker.failures > FailureThreshold
    /\ \E c \in Callers : pc[c] = "request" /\ admittedIn[c] = "HALF_OPEN"

\* C34: a call that is rejected with CIRCUIT_BREAKER_OPEN leaves the
\* breaker's counter, last-failure time and state as they were, and a call
\* that starts 30 s or more after the last recorded failure is not rejected.
C34_RejectionLeavesBreaker ==
    [][\A c \in Callers :
         StartStep(c) =>
            /\ ev'.op = "reject" =>
                  /\ circuitBreaker' = circuitBreaker
                  /\ lastResult'[c] = "CIRCUIT_BREAKER_OPEN"
            /\ now - circuitBreaker.lastFailureTime >= ResetTimeoutMs =>
                  /\ ev'.op = "send"
                  /\ lastResult'[c] # "CIRCUIT_BREAKER_OPEN"]_vars

\* A call has just been rejected, some time after the last failure and
\* after an earlier call had been rejected as well.
C34_Witness ==
    /\ ev.op = "reject"
    /\ now - circuitBreaker.lastFailureTime >= TickMs
    /\ \E c \in Callers \ {ev.c} : lastResult[c] = "CIRCUIT_BREAKER_OPEN"

(***************************************************************************)
(* Properties of the objectives and of the mission status                  *)
(***************************************************************************)
\* C35: no step of executeMission changes the completed flag of an
\* objective; the objectivesCompleted of an execution's MissionResult is the
\* number of objectives of its mission that were completed at invocation;
\* and an execution whose mission has an incomplete objective reaches
\* finalization only after an abort or after maxIterations iterations.
C35_ObjectivesUntouched ==
    [][/\ mObjectives' = mObjectives
       /\ \A e \in Missions :
            /\ xResult'[e] # NoResult =>
                  xResult'[e].objectivesCompleted = CompletedCount(mObjectives[e])
            /\ (xpc'[e] \in Finalized /\ ~AllComplete(mObjectives[e])) =>
                  \/ xAborted'[e]
                  \/ xIter'[e] = Min(maxIterations, IterCap)]_vars

\* C36: every step of executeMission that changes the status of a mission
\* takes it to a status that MISSION_STATUS_TRANSITIONS lists for the
\* status it held before.
C36_ListedTransitionsOnly ==
    [][\A e \in Missions :
         mStatus'[e] # mStatus[e] =>
            mStatus'[e] \in MISSION_STATUS_TRANSITIONS[mStatus[e]]]_vars

\* C37: an execution that took the abort branch, and so set its mission's
\* status to ABORTED, finishes, by returning or by raising, with that
\* status still ABORTED.
C37_AbortedStays ==
    \A e \in Missions :
        (xAborted[e] /\ xpc[e] \in Finished) => mStatus[e] = "ABORTED"

\* C38: an execution that has raised holds a MissionError carrying the
\* identifier of its mission, and the status of its mission is FAILED,
\* wherever in the call the failure arrived.
C38_RaisesMissionError ==
    \A e \in Missions :
        xpc[e] = "raised" =>
            /\ xError[e] = [kind |-> "MissionError", missionId |-> e]
            /\ mStatus[e] = "FAILED"

(***************************************************************************)
(* Properties of the evaluator's thresholds                                *)
(***************************************************************************)
\* The battery reserve the mission configures, 20 when it configures none.
ConfiguredReserve(m) ==
    IF Present(m.batteryReserve) THEN m.batteryReserve ELSE 20

\* C39: when the crowd rule does not apply, the evaluator returns abort
\* whenever the wind speed is above the configured maximum, whenever the
\* visibility is below the configured minimum and whenever the battery is
\* below the configured reserve, a configured or measured value of 0 being
\* compared as 0; and the battery rule decides only when the battery is
\* below the configured reserve, 20 standing in only for a missing one.
C39_ZeroHonoured ==
    (/\ evalResult.reason # "pending"
     /\ CountHighPriorityPersons(evalWorld.trackedObjects) <= 3) =>
        /\ (/\ Present(evalWorld.windSpeed)
            /\ Present(evalMission.maxWindSpeed)
            /\ evalWorld.windSpeed > evalMission.maxWindSpeed) =>
               evalResult.shouldAbort
        /\ (/\ Present(evalWorld.visibility)
            /\ Present(evalMission.minVisibility)
            /\ evalWorld.visibility < evalMission.minVisibility) =>
               evalResult.shouldAbort
        /\ evalWorld.battery < ConfiguredReserve(evalMission) =>
               evalResult.shouldAbort
        /\ evalResult.reason = "battery" =>
               evalWorld.battery < ConfiguredReserve(evalMission)


====
